---------------------------- MODULE Spec2Model ----------------------------
(***************************************************************************)
(* Model of the bmvd battery monitor daemon:                               *)
(*   src/bmvd/bmv600s.py  MonitorData, BlockReader, SerialReaderThread     *)
(*   src/bmv600s.py       StreamParser (the earlier dict based parser)     *)
(*   src/bmvd/webserver.py  _BmvRequestHandler._get_data_json              *)
(* Bytes are integers 0..255, byte strings are sequences of bytes, decoded *)
(* text is a sequence of code points.                                      *)
(***************************************************************************)
EXTENDS Integers, Sequences, FiniteSets, TLC

(***************************************************************************)
(* Bytes and text                                                          *)
(***************************************************************************)

\* byte values of the characters the parsers look for
TAB == 9
LF == 10
CR == 13
\* U+FFFD, what bytes.decode("ascii", "replace") puts for a byte >= 0x80
REPLACEMENT == 65533

\* b"Checksum"
CHECKSUM_LABEL == <<67, 104, 101, 99, 107, 115, 117, 109>>

Min(S) == CHOOSE x \in S : \A y \in S : x <= y

MatchAt(buf, sub, p) == \A j \in 1..Len(sub) : buf[p + j] = sub[j]

\* bytearray.find: 0-based offset of the first occurrence of sub, or -1
MinOr(S, none) == IF S = {} THEN none ELSE Min(S)

find(buf, sub) == MinOr({p \in 0..(Len(buf) - Len(sub)) : MatchAt(buf, sub, p)}, -1)

\* sum of s[lo..hi], by halves so that long buffers need little nesting
RECURSIVE SumRange(_, _, _)
SumRange(s, lo, hi) ==
    IF lo > hi THEN 0
    ELSE IF lo = hi THEN s[lo]
    ELSE LET mid == (lo + hi) \div 2
         IN  SumRange(s, lo, mid) + SumRange(s, mid + 1, hi)

\* the builtin sum() over a bytes object
sum(s) == SumRange(s, 1, Len(s))

\* bytes.splitlines(): lines end at LF, CR or CR LF; no empty last line
RECURSIVE splitlines(_)
splitlines(b) ==
    IF b = <<>> THEN <<>>
    ELSE LET ends == {i \in 1..Len(b) : b[i] = LF \/ b[i] = CR}
         IN  IF ends = {} THEN <<b>>
             ELSE LET e == Min(ends)
                      skip == IF b[e] = CR /\ e < Len(b) /\ b[e + 1] = LF
                              THEN e + 1 ELSE e
                  IN  <<SubSeq(b, 1, e - 1)>> \o splitlines(SubSeq(b, skip + 1, Len(b)))

\* bytes.decode("ascii", "replace")
decode(line) == [i \in 1..Len(line) |-> IF line[i] < 128 THEN line[i] ELSE REPLACEMENT]

\* str.split('\t'): the pieces between the tabs
RECURSIVE split(_)
split(text) ==
    LET tabs == {i \in 1..Len(text) : text[i] = TAB}
    IN  IF tabs = {} THEN <<text>>
        ELSE LET t == Min(tabs)
             IN  <<SubSeq(text, 1, t - 1)>> \o split(SubSeq(text, t + 1, Len(text)))

(***************************************************************************)
(* MonitorData and its decoders                                            *)
(***************************************************************************)

Max(S) == CHOOSE x \in S : \A y \in S : x >= y

\* what int() strips from both ends of its argument
WHITESPACE == (9..13) \cup {32}

strip(text) ==
    LET keep == {i \in 1..Len(text) : text[i] \notin WHITESPACE}
    IN  IF keep = {} THEN <<>> ELSE SubSeq(text, Min(keep), Max(keep))

IsDigit(c) == c \in 48..57

\* decimal digits, single underscores allowed between two digits
IsDecimal(d) ==
    /\ Len(d) > 0
    /\ IsDigit(d[1])
    /\ IsDigit(d[Len(d)])
    /\ \A i \in 1..Len(d) : IsDigit(d[i]) \/ (d[i] = 95 /\ IsDigit(d[i + 1]))

RECURSIVE DecimalValue(_, _)
DecimalValue(d, acc) ==
    IF d = <<>> THEN acc
    ELSE DecimalValue(Tail(d), IF d[1] = 95 THEN acc ELSE 10 * acc + (d[1] - 48))

\* int() on text already stripped: an optional sign, then the digits
IntOfStripped(s) ==
    LET signed == Len(s) > 0 /\ s[1] \in {43, 45}
        d == IF signed THEN Tail(s) ELSE s
    IN  IF IsDecimal(d)
        THEN [exc |-> "none",
              val |-> (IF signed /\ s[1] = 45 THEN -1 ELSE 1) * DecimalValue(d, 0)]
        ELSE [exc |-> "ValueError", val |-> 0]

\* the builtin int(str): [exc |-> "none", val |-> n] or a ValueError
int(text) == IntOfStripped(strip(text))

\* class AlarmReason(IntFlag), in definition order
AlarmReason == << [name |-> "NONE", value |-> 0],
                  [name |-> "LOW_VOLTAGE", value |-> 1],
                  [name |-> "HIGH_VOLTAGE", value |-> 2],
                  [name |-> "LOW_STATE_OF_CHARGE", value |-> 4] >>

\* a & b for b >= 0 (a may be negative: two's complement, as Python's int)
RECURSIVE BitAnd(_, _)
BitAnd(a, b) ==
    IF b = 0 THEN 0
    ELSE (a % 2) * (b % 2) + 2 * BitAnd(a \div 2, b \div 2)

\* "|".join(names)
RECURSIVE join(_)
join(names) ==
    IF Len(names) = 1 THEN names[1]
    ELSE names[1] \o "|" \o join(Tail(names))

\* MonitorData.value_as_int
value_as_int(value) ==
    IF value = <<>> THEN [exc |-> "none", val |-> 0] ELSE int(value)

\* MonitorData.value_as_bool: value == "On"
value_as_bool(value) == value = <<79, 110>>

\* the first alarm alone, the join forgotten
FirstAlarmName(set) ==
    IF set # <<>> THEN set[1].name ELSE AlarmReason[1].name

\* "|".join(alarms) if alarms else AlarmReason.NONE.name
AlarmNames(set) ==
    IF set # <<>> THEN join([i \in 1..Len(set) |-> set[i].name])
    ELSE AlarmReason[1].name

\* the members of AlarmReason with "value & alarm" set, once int(value) is done
AlarmsOf(v) ==
    IF v.exc # "none" THEN [exc |-> v.exc, val |-> ""]
    ELSE [exc |-> "none",
          val |-> AlarmNames(SelectSeq(AlarmReason,
                                       LAMBDA a : BitAnd(v.val, a.value) # 0))]

\* MonitorData.value_as_alarm_str
value_as_alarm_str(value) ==
    IF value = <<>> THEN [exc |-> "none", val |-> AlarmReason[1].name]
    ELSE AlarmsOf(int(value))

\* MonitorData(): every field at its default
MonitorData ==
    [voltage |-> 0, current |-> 0, consumed_energy |-> 0, state_of_charge |-> 0,
     time_to_go |-> 0, alarm |-> FALSE, relay |-> FALSE, alarm_reason |-> "",
     model_name |-> <<>>, firmware_version |-> <<>>,
     deepest_discharge |-> 0, last_discharge |-> 0, average_discharge |-> 0,
     num_charge_cycles |-> 0, num_full_discharges |-> 0, total_consumed |-> 0,
     min_battery_voltage |-> 0, max_battery_voltage |-> 0,
     days_since_last_full_charge |-> 0, num_auto_syncs |-> 0,
     num_low_voltage_alarms |-> 0, num_high_voltage_alarms |-> 0]

\* the if/elif chain of MonitorData.set_value: key, field, decoder
FIELDS ==
    << [key |-> <<86>>,                     field |-> "voltage",           kind |-> "int"],
       [key |-> <<73>>,                     field |-> "current",           kind |-> "int"],
       [key |-> <<67, 69>>,                 field |-> "consumed_energy",   kind |-> "int"],
       [key |-> <<83, 79, 67>>,             field |-> "state_of_charge",   kind |-> "int"],
       [key |-> <<84, 84, 71>>,             field |-> "time_to_go",        kind |-> "int"],
       [key |-> <<65, 108, 97, 114, 109>>,  field |-> "alarm",             kind |-> "bool"],
       [key |-> <<82, 101, 108, 97, 121>>,  field |-> "relay",             kind |-> "bool"],
       [key |-> <<65, 82>>,                 field |-> "alarm_reason",      kind |-> "alarm"],
       [key |-> <<66, 77, 86>>,             field |-> "model_name",        kind |-> "str"],
       [key |-> <<70, 87>>,                 field |-> "firmware_version",  kind |-> "str"],
       [key |-> <<72, 49>>,                 field |-> "deepest_discharge", kind |-> "int"],
       [key |-> <<72, 50>>,                 field |-> "last_discharge",    kind |-> "int"],
       [key |-> <<72, 51>>,                 field |-> "average_discharge", kind |-> "int"],
       [key |-> <<72, 52>>,                 field |-> "num_charge_cycles", kind |-> "int"],
       [key |-> <<72, 53>>,                 field |-> "num_full_discharges", kind |-> "int"],
       [key |-> <<72, 54>>,                 field |-> "total_consumed",    kind |-> "int"],
       [key |-> <<72, 55>>,                 field |-> "min_battery_voltage", kind |-> "int"],
       [key |-> <<72, 56>>,                 field |-> "max_battery_voltage", kind |-> "int"],
       [key |-> <<72, 57>>,                 field |-> "days_since_last_full_charge", kind |-> "int"],
       [key |-> <<72, 49, 48>>,             field |-> "num_auto_syncs",    kind |-> "int"],
       [key |-> <<72, 49, 49>>,             field |-> "num_low_voltage_alarms", kind |-> "int"],
       [key |-> <<72, 49, 50>>,             field |-> "num_high_voltage_alarms", kind |-> "int"] >>

\* the branch of set_value's if/elif chain that key takes, 0 for the else
FieldOf(key) ==
    LET known == {i \in 1..Len(FIELDS) : FIELDS[i].key = key}
    IN  IF known = {} THEN 0 ELSE Min(known)

\* the right-hand side of the assignment in that branch
Decoded(kind, value) ==
    CASE kind = "int"   -> value_as_int(value)
      [] kind = "bool"  -> [exc |-> "none", val |-> value_as_bool(value)]
      [] kind = "alarm" -> value_as_alarm_str(value)
      [] OTHER          -> [exc |-> "none", val |-> value]

\* the assignment itself, not reached when the decoder raised
Assign(self, field, r) ==
    IF r.exc # "none" THEN [values |-> self, exc |-> r.exc]
    ELSE [values |-> [self EXCEPT ![field] = r.val], exc |-> "none"]

SetField(self, i, value) ==
    IF i = 0 THEN [values |-> self, exc |-> "KeyError"]
    ELSE Assign(self, FIELDS[i].field, Decoded(FIELDS[i].kind, value))

\* MonitorData.set_value: the record after the call and the exception it raised
set_value(self, key, value) == SetField(self, FieldOf(key), value)

(***************************************************************************)
(* BlockReader (src/bmvd/bmv600s.py)                                       *)
(***************************************************************************)

\* the default of _check_discard_buffer's maxsize parameter
maxsize == 1024

\* _parse_line_ex without its try/except: the KeyError leaves the method
PropagateKeyError(vals, r) == r

\* the try/except of _parse_line_ex: a KeyError is caught and printed, any
\* other exception of set_value leaves the method
ExceptKeyError(vals, r) ==
    IF r.exc = "KeyError" THEN [values |-> vals, exc |-> "none"] ELSE r

\* "if len(values) == 2" of _parse_line_ex, values being line.split('\t')
ParseParts(vals, parts) ==
    IF Len(parts) = 2 THEN ExceptKeyError(vals, set_value(vals, parts[1], parts[2]))
    ELSE [values |-> vals, exc |-> "none"]

\* BlockReader._parse_line_ex
_parse_line_ex(vals, line) ==
    IF line = <<>> THEN [values |-> vals, exc |-> "none"]
    ELSE ParseParts(vals, split(line))

\* the loop "for line in lines" of _extract_block, left at the first exception
RECURSIVE ParseLines(_, _)
ParseRest(r, lines) ==
    IF r.exc # "none" THEN r ELSE ParseLines(r.values, lines)

ParseLines(vals, lines) ==
    IF lines = <<>> THEN [values |-> vals, exc |-> "none"]
    ELSE ParseRest(_parse_line_ex(vals, decode(Head(lines))), Tail(lines))

\* the line ends bytes.splitlines() finds in b: a LF, a CR, or a CR LF pair
LineEnds(b) ==
    {i \in 1..Len(b) : \/ b[i] = CR
                       \/ b[i] = LF /\ (i = 1 \/ b[i - 1] # CR)}

\* the bytes of b that end no line
ContentBytes(b) == SelectSeq(b, LAMBDA x : x # CR /\ x # LF)

\* the sum the wire format of the specification describes for a block: its
\* content bytes, a CR and a LF for every line end whatever bytes are there,
\* and the checksum byte
VirtualSum(block) ==
    sum(ContentBytes(SubSeq(block, 1, Len(block) - 1)))
        + (CR + LF) * Cardinality(LineEnds(SubSeq(block, 1, Len(block) - 1)))
        + block[Len(block)]

\* the checksum test done by the rule of VirtualSum
BadVirtualChecksum(blockbuf) == VirtualSum(blockbuf) % 256 # 0

\* the test "sum(blockbuf) % 256 != 0" of both parsers
BadChecksum(blockbuf) == sum(blockbuf) % 256 # 0

\* a new MonitorData for every block
FreshTarget(vals) == MonitorData

\* where the decoded fields of a block go: into the reader's one MonitorData
BlockTarget(vals) == vals

\* the end of _extract_block: ret is the value returned, FALSE with exc set
\* when an exception left the method
Extracted(rest, r) ==
    [ret |-> r.exc = "none", buffer |-> rest, values |-> r.values, exc |-> r.exc]

\* _extract_block testing the checksum before it cuts the block off, so that a
\* block that fails stays in the buffer
CheckBlockKeeps(blockbuf, rest, vals, pos) ==
    IF BadChecksum(blockbuf)
    THEN [ret |-> FALSE, buffer |-> blockbuf \o rest, values |-> vals, exc |-> "none"]
    ELSE Extracted(rest, ParseLines(BlockTarget(vals),
                                    splitlines(SubSeq(blockbuf, 1, pos))))

\* _extract_block once blockbuf has been cut off the buffer
CheckBlock(blockbuf, rest, vals, pos) ==
    IF BadChecksum(blockbuf)
    THEN [ret |-> FALSE, buffer |-> rest, values |-> vals, exc |-> "none"]
    ELSE Extracted(rest, ParseLines(BlockTarget(vals),
                                    splitlines(SubSeq(blockbuf, 1, pos))))

\* _extract_block once the label has been looked for
ExtractAt(buf, vals, pos, blocklen) ==
    IF pos = -1 \/ Len(buf) < blocklen
    THEN [ret |-> FALSE, buffer |-> buf, values |-> vals, exc |-> "none"]
    ELSE CheckBlock(SubSeq(buf, 1, blocklen), SubSeq(buf, blocklen + 1, Len(buf)),
                    vals, pos)

BlockLen(pos) == pos + Len(CHECKSUM_LABEL) + 2

LabelAt(buf, vals, pos) == ExtractAt(buf, vals, pos, BlockLen(pos))

\* BlockReader._extract_block
_extract_block(buf, vals) == LabelAt(buf, vals, find(buf, CHECKSUM_LABEL))

\* _check_discard_buffer without its size test: the head of the buffer goes
\* whenever no block came out
DiscardWithoutTest(buf) == SubSeq(buf, maxsize + 1, Len(buf))

\* _check_discard_buffer with its comparison turned round
DiscardWhenShort(buf) ==
    IF Len(buf) < maxsize THEN SubSeq(buf, maxsize + 1, Len(buf)) ELSE buf

\* BlockReader._check_discard_buffer
_check_discard_buffer(buf) ==
    IF Len(buf) >= maxsize THEN SubSeq(buf, maxsize + 1, Len(buf)) ELSE buf

\* the "while True" loop of BlockReader.read; seen collects monitor_data as it
\* stands after each extracted block
RECURSIVE ReadLoop(_, _, _, _)
ReadStep(e, counter, seen) ==
    IF e.exc # "none"
    THEN [buffer |-> e.buffer, values |-> e.values, counter |-> counter,
          seen |-> seen, exc |-> e.exc]
    ELSE IF e.ret
    THEN ReadLoop(e.buffer, e.values, counter + 1, Append(seen, e.values))
    ELSE [buffer |-> _check_discard_buffer(e.buffer), values |-> e.values,
          counter |-> counter, seen |-> seen, exc |-> "none"]

ReadLoop(buf, vals, counter, seen) == ReadStep(_extract_block(buf, vals), counter, seen)

\* BlockReader.read(data)
read(buf, vals, data) ==
    IF data = <<>>
    THEN [buffer |-> buf, values |-> vals, counter |-> 0, seen |-> <<>>, exc |-> "none"]
    ELSE ReadLoop(buf \o data, vals, 0, <<>>)

(***************************************************************************)
(* StreamParser (src/bmv600s.py)                                           *)
(***************************************************************************)

\* block[values[0]] = values[1]
SetItem(block, key, value) ==
    [k \in DOMAIN block \cup {key} |-> IF k = key THEN value ELSE block[k]]

\* "if len(values) == 2" of StreamParser._parse_line
StoreParts(parts, block) ==
    IF Len(parts) = 2 THEN SetItem(block, parts[1], parts[2]) ELSE block

\* StreamParser._parse_line
_parse_line(line, block) == StoreParts(split(line), block)

\* "if text:" of StreamParser._extract_block
ParseText(text, block) == IF text # <<>> THEN _parse_line(text, block) ELSE block

\* the loop "for line in lines" of StreamParser._extract_block
RECURSIVE DictOfLines(_, _)
DictOfLines(lines, block) ==
    IF lines = <<>> THEN block
    ELSE DictOfLines(Tail(lines), ParseText(decode(Head(lines)), block))

\* dict(): the empty dict, a function with no keys
EmptyDict == [k \in {} |-> <<>>]

\* StreamParser._extract_block once blockbuf has been cut off the buffer
SP_CheckBlock(blockbuf, rest, pos) ==
    IF BadChecksum(blockbuf)
    THEN [none |-> TRUE, buffer |-> rest, block |-> EmptyDict]
    ELSE [none |-> FALSE, buffer |-> rest,
          block |-> DictOfLines(splitlines(SubSeq(blockbuf, 1, pos)), EmptyDict)]

\* StreamParser._extract_block once the label has been looked for
SP_ExtractAt(buf, pos, blocklen) ==
    IF pos = -1 \/ Len(buf) < blocklen
    THEN [none |-> TRUE, buffer |-> buf, block |-> EmptyDict]
    ELSE SP_CheckBlock(SubSeq(buf, 1, blocklen), SubSeq(buf, blocklen + 1, Len(buf)),
                       pos)

SP_LabelAt(buf, pos) == SP_ExtractAt(buf, pos, BlockLen(pos))

\* StreamParser._extract_block: none is TRUE when it returns None
SP_extract_block(buf) == SP_LabelAt(buf, find(buf, CHECKSUM_LABEL))

\* the "while True" loop of StreamParser.process: "if block" is false for
\* None and for an empty dict
RECURSIVE ProcessLoop(_, _)
ProcessStep(e, result) ==
    IF ~e.none /\ DOMAIN e.block # {}
    THEN ProcessLoop(e.buffer, Append(result, e.block))
    ELSE [buffer |-> _check_discard_buffer(e.buffer), result |-> result]

ProcessLoop(buf, result) == ProcessStep(SP_extract_block(buf), result)

\* StreamParser.process(data)
process(buf, data) ==
    IF data = <<>> THEN [buffer |-> buf, result |-> <<>>]
    ELSE ProcessLoop(buf \o data, <<>>)

(***************************************************************************)
(* What the device (or a data file) delivers                               *)
(***************************************************************************)

\* V 12, I -7, CR LF lines
K_VI == << 86, 9, 49, 50, 13, 10, 73, 9, 45, 55, 13, 10 >>
\* H1 -5, AR 3, a leading CR LF as the device sends
K_HIST == << 13, 10, 72, 49, 9, 45, 53, 13, 10, 65, 82, 9, 51, 13, 10 >>
\* V with an empty value, Alarm On
K_EMPTYV == << 86, 9, 13, 10, 65, 108, 97, 114, 109, 9, 79, 110, 13, 10 >>
\* the unknown code XY, BMV 6S
K_UNKNOWN == << 88, 89, 9, 53, 13, 10, 66, 77, 86, 9, 54, 83, 13, 10 >>
\* I 5, then V with the non-numeric text x
K_BADINT == << 73, 9, 53, 13, 10, 86, 9, 120, 13, 10 >>
\* V 9 ended by LF alone, I 1 ended by CR alone
K_LFCR == << 86, 9, 57, 10, 73, 9, 49, 13 >>
\* a line with no tab and a line with two tabs
K_JUNK == << 106, 117, 110, 107, 13, 10, 86, 9, 49, 9, 50, 13, 10 >>
\* the byte 0xC8 as the value of the unknown code ZZ and of FW
K_HIGH == << 90, 90, 9, 200, 13, 10, 70, 87, 9, 200, 13, 10 >>
\* AR with the non-numeric text z
K_BADAR == << 65, 82, 9, 122, 13, 10 >>
\* a line one byte away from the label, 0xC4 after its tab
K_NEAR == << 67, 104, 101, 99, 107, 115, 117, 108, 9, 196, 13, 10 >>

Contents == {K_VI, K_HIST, K_EMPTYV, K_UNKNOWN, K_BADINT, K_LFCR, K_JUNK,
             K_HIGH, K_BADAR, K_NEAR}

\* the byte that brings the sum of head and itself to 0 mod 256
ChecksumByte(head) == (256 - (sum(head) % 256)) % 256

\* a block as the device frames it: the lines, the label, a tab and the byte
\* that makes the sum of all the bytes of the block 0 mod 256
DeviceBlock(content) ==
    LET head == content \o CHECKSUM_LABEL \o <<TAB>>
    IN  head \o <<ChecksumByte(head)>>

\* the same lines framed with the checksum byte that rule asks for
VirtualBlock(content) ==
    LET head == content \o CHECKSUM_LABEL \o <<TAB>>
    IN  head \o <<(256 - (VirtualSum(head \o <<0>>) % 256)) % 256>>

\* the longest run of blocks in one input
MaxBlocks == 2

\* the largest of the small chunk sizes tried
MaxChunk == 3

\* the size SerialReaderThread.run and _read_data_file ask for
READ_SIZE == 64

RECURSIVE Concat(_)
Concat(ss) == IF ss = <<>> THEN <<>> ELSE Head(ss) \o Concat(Tail(ss))

BlockSeqs(S) == UNION {[1..n -> S] : n \in 1..MaxBlocks}

\* inputs made of blocks the device frames
DeviceInputs ==
    {[made_of |-> bs, stream |-> Concat(bs), flipped |-> 0] :
        bs \in BlockSeqs({DeviceBlock(c) : c \in Contents})}

\* one device block with the byte at offset i changed to another value
FlippedInputs ==
    UNION {{[made_of |-> <<b>>, stream |-> [b EXCEPT ![i] = (b[i] + d) % 256],
             flipped |-> i] : i \in 1..Len(b), d \in {1, 128}} :
           b \in {DeviceBlock(c) : c \in Contents}}

\* a block framed by the rule of VirtualSum, alone or followed by a device block
VirtualInputs ==
    UNION {{[made_of |-> <<VirtualBlock(c)>>, stream |-> VirtualBlock(c), flipped |-> 0]}
           \cup {[made_of |-> <<VirtualBlock(c), DeviceBlock(k)>>,
                  stream |-> VirtualBlock(c) \o DeviceBlock(k), flipped |-> 0] :
                     k \in {K_VI, K_HIST}} :
           c \in {K_VI, K_HIST, K_LFCR}}

\* the largest AR value sent
MaxAR == 9

\* str(n) for n >= 0
RECURSIVE Str(_)
Str(n) == IF n < 10 THEN <<48 + n>> ELSE Str(n \div 10) \o <<48 + (n % 10)>>

\* the device block whose one line is AR <TAB> text
ARBlock(text) == DeviceBlock(<<65, 82, TAB>> \o text \o <<CR, LF>>)

\* one block with an AR line: every value up to MaxAR, and no text at all
ARInputs ==
    {[made_of |-> <<ARBlock(t)>>, stream |-> ARBlock(t), flipped |-> 0] :
        t \in {Str(v) : v \in 0..MaxAR} \cup {<<>>}}

SmallInputs == DeviceInputs \cup FlippedInputs \cup VirtualInputs \cup ARInputs

\* n times the letter A
Filler(n) == [i \in 1..n |-> 65]

\* one device block of len bytes in all: the line BMV <TAB> AAA... and the
\* checksum line
LongBlock(len) == DeviceBlock(<<66, 77, 86, TAB>> \o Filler(len - 4 - Len(CHECKSUM_LABEL) - 2))

\* a block as long as maxsize and one a byte longer, each alone and followed
\* by a short block; and bytes with no label among them
LongInputs ==
    UNION {{[made_of |-> <<LongBlock(len)>>, stream |-> LongBlock(len), flipped |-> 0],
            [made_of |-> <<LongBlock(len), DeviceBlock(K_VI)>>,
             stream |-> LongBlock(len) \o DeviceBlock(K_VI), flipped |-> 0]} :
           len \in {maxsize, maxsize + 1}}
    \cup {[made_of |-> <<>>, stream |-> Filler(2 * maxsize + 2), flipped |-> 0]}

(***************************************************************************)
(* State                                                                   *)
(***************************************************************************)

VARIABLES
    prog,       \* the program running: "BlockReader", "StreamParser" or "daemon"
    made_of,    \* the blocks the input was made of
    flipped,    \* the offset of the byte changed in the input, 0 for none
    stream,     \* the bytes the source delivers
    pos,        \* how many of them have been delivered
    oversize,   \* whether some chunk delivered was longer than maxsize
    buffer,     \* BlockReader._buffer, StreamParser._buffer
    values,     \* BlockReader._values
    seen,       \* monitor_data as it stood after each extracted block
    total,      \* the sum of the counts read has returned
    ret,        \* what the last read or process call returned (-1: nothing)
    exc,        \* the exception that left read, "none" while there is none
    result,     \* the blocks process has returned, in order
    stopcount,  \* read_serial's stopcount argument
    tpc,        \* where SerialReaderThread.run stands
    sp,         \* the serial port: "none", "open" or "closed"
    stop_event, \* SerialReaderThread.stop_event
    _data,      \* SerialReaderThread._data
    chunk,      \* the bytes the last sp.read returned
    uncaught,   \* the exception that left run, "none" while there is none
    failed,     \* whether a SerialException has been raised
    published,  \* the snapshots stored into _data, in order
    ends,       \* the snapshots at the end of the read calls that returned > 0
    obs         \* what each reader's call gave it

pvars == <<prog, made_of, flipped, stream, pos, oversize, buffer, values, seen,
           total, ret, exc, result, stopcount>>

tvars == <<tpc, sp, stop_event, _data, chunk, uncaught, failed, published, ends, obs>>

vars == <<pvars, tvars>>

\* how many readers call into the thread
NumReaders == 2
Readers == 1..NumReaders

\* a reader that has not called yet
NoCall == [done |-> FALSE, via |-> "none", after |-> 0, exc |-> "none",
           val |-> <<>>, json |-> "none"]

\* SerialReaderThread.__init__ and the readers before any call
InitThread ==
    /\ tpc = "new"
    /\ sp = "none"
    /\ stop_event = FALSE
    /\ _data = MonitorData
    /\ chunk = <<>>
    /\ uncaught = "none"
    /\ failed = FALSE
    /\ published = <<>>
    /\ ends = {}
    /\ obs = [r \in Readers |-> NoCall]

\* the chunk sizes tried: small ones, the size the drivers read, the sizes
\* around maxsize, and everything that is left
ChunkSizes ==
    {n \in (1..MaxChunk) \cup {READ_SIZE, maxsize, maxsize + 1} : n < Len(stream) - pos}
        \cup {Len(stream) - pos}

Chunk(n) == SubSeq(stream, pos + 1, pos + n)

InitParser(inputs) ==
    /\ prog \in {"BlockReader", "StreamParser"}
    /\ \E in \in inputs :
          /\ made_of = in.made_of
          /\ flipped = in.flipped
          /\ stream = in.stream
    /\ pos = 0
    /\ oversize = FALSE
    /\ buffer = <<>>
    /\ values = MonitorData
    /\ seen = <<>>
    /\ total = 0
    /\ ret = -1
    /\ exc = "none"
    /\ result = <<>>
    /\ stopcount = 0
    /\ InitThread

Init == InitParser(SmallInputs)

InitLong == InitParser(LongInputs \cup DeviceInputs)

\* the driver's side of a call: data leaves the source
Deliver(data) ==
    /\ pos' = pos + Len(data)
    /\ oversize' = (oversize \/ Len(data) > maxsize)

\* what a call reader.read(data) leaves behind
AfterRead(r) ==
    /\ buffer' = r.buffer
    /\ values' = r.values
    /\ seen' = seen \o r.seen
    /\ exc' = r.exc
    /\ ret' = IF r.exc = "none" THEN r.counter ELSE -1
    /\ total' = IF r.exc = "none" THEN total + r.counter ELSE total

\* one call reader.read(data) of a driver such as _read_data_file, which ends
\* when an exception leaves read
BlockReaderRead(n) ==
    /\ prog = "BlockReader"
    /\ exc = "none"
    /\ pos < Len(stream)
    /\ Deliver(Chunk(n))
    /\ AfterRead(read(buffer, values, Chunk(n)))
    /\ UNCHANGED <<prog, made_of, flipped, stream, result, stopcount, tvars>>

\* what a call parser.process(data) leaves behind
AfterProcess(r) ==
    /\ buffer' = r.buffer
    /\ result' = result \o r.result
    /\ ret' = Len(r.result)
    /\ total' = total + Len(r.result)

\* one call parser.process(data) of a driver such as load_data_file
StreamParserProcess(n) ==
    /\ prog = "StreamParser"
    /\ pos < Len(stream)
    /\ Deliver(Chunk(n))
    /\ AfterProcess(process(buffer, Chunk(n)))
    /\ UNCHANGED <<prog, made_of, flipped, stream, values, seen, exc, stopcount, tvars>>

Next ==
    \/ \E n \in ChunkSizes : BlockReaderRead(n)
    \/ \E n \in ChunkSizes : StreamParserProcess(n)

Spec == Init /\ [][Next]_vars

SpecLong == InitLong /\ [][Next]_vars

(***************************************************************************)
(* SerialReaderThread and its readers (src/bmvd/bmv600s.py, webserver.py)  *)
(***************************************************************************)

\* the stopcount main() of src/bmv600s.py passes for --single
SINGLE_STOPCOUNT == 2

\* what the serial line carries while the daemon runs
ThreadInputs ==
    {[made_of |-> bs, stream |-> Concat(bs), flipped |-> 0] :
        bs \in {<<DeviceBlock(K_VI)>>, <<DeviceBlock(K_VI), DeviceBlock(K_HIST)>>,
                <<DeviceBlock(K_BADINT)>>, <<DeviceBlock(K_UNKNOWN)>>,
                <<DeviceBlock(K_HIGH)>>, <<VirtualBlock(K_LFCR)>>,
                <<VirtualBlock(K_LFCR), DeviceBlock(K_VI)>>}}

InitDaemon ==
    /\ prog = "daemon"
    /\ \E in \in ThreadInputs :
          /\ made_of = in.made_of
          /\ flipped = in.flipped
          /\ stream = in.stream
    /\ pos = 0
    /\ oversize = FALSE
    /\ buffer = <<>>
    /\ values = MonitorData
    /\ seen = <<>>
    /\ total = 0
    /\ ret = -1
    /\ exc = "none"
    /\ result = <<>>
    /\ stopcount = 0
    /\ InitThread

\* "self._lock = threading.Lock": the factory itself, not a lock it made
_lock == "threading.Lock"

\* entering "with lock:": only a lock object has __enter__; for anything else
\* the statement raises TypeError (AttributeError before Python 3.11)
Enter(lock) == IF lock = "threading.Lock()" THEN "none" ELSE "TypeError"

\* the parser variables a step of the thread leaves alone when it does not
\* call reader.read
ReaderIdle == UNCHANGED <<buffer, values, seen, total, ret, exc>>
InputIdle == UNCHANGED <<prog, made_of, flipped, stream, oversize, result, stopcount>>

\* thread.start() up to the "try": run() has reset the reader
Start ==
    /\ prog = "daemon" /\ tpc = "new"
    /\ tpc' = "opening"
    /\ buffer' = <<>>
    /\ values' = MonitorData
    /\ InputIdle
    /\ UNCHANGED <<pos, seen, total, ret, exc, sp, stop_event, _data, chunk,
                   uncaught, failed, published, ends, obs>>

\* open_serial_port: serial.Serial(...) succeeds and the "with" body begins
Open ==
    /\ prog = "daemon" /\ tpc = "opening"
    /\ tpc' = "check"
    /\ sp' = "open"
    /\ InputIdle /\ ReaderIdle
    /\ UNCHANGED <<pos, stop_event, _data, chunk, uncaught, failed, published, ends, obs>>

\* open_serial_port: serial.Serial(...) raises SerialException, which run()
\* catches and prints
OpenFails ==
    /\ prog = "daemon" /\ tpc = "opening"
    /\ tpc' = "done"
    /\ failed' = TRUE
    /\ InputIdle /\ ReaderIdle
    /\ UNCHANGED <<pos, sp, stop_event, _data, chunk, uncaught, published, ends, obs>>

\* the loop of run without its flag test: every iteration goes on to read
CheckStopIgnored ==
    /\ prog = "daemon" /\ tpc = "check"
    /\ tpc' = "reading"
    /\ InputIdle /\ ReaderIdle
    /\ UNCHANGED <<pos, sp, stop_event, _data, chunk, uncaught, failed, published, ends, obs>>

\* "if self.stop_event.is_set(): break": the with block ends, the port closes
CheckStop ==
    /\ prog = "daemon" /\ tpc = "check"
    /\ tpc' = IF stop_event THEN "done" ELSE "reading"
    /\ sp' = IF stop_event THEN "closed" ELSE sp
    /\ InputIdle /\ ReaderIdle
    /\ UNCHANGED <<pos, stop_event, _data, chunk, uncaught, failed, published, ends, obs>>

\* the loop of run with read_serial's "else: break" for an empty read
SerialReadBreaks(n) ==
    /\ prog = "daemon" /\ tpc = "reading"
    /\ chunk' = Chunk(n)
    /\ pos' = pos + n
    /\ tpc' = IF n > 0 THEN "process" ELSE "done"
    /\ InputIdle /\ ReaderIdle
    /\ UNCHANGED <<sp, stop_event, _data, uncaught, failed, published, ends, obs>>

\* how many bytes one sp.read(64) may return: none on a timeout, at most 64
SerialSizes == {0} \cup {n \in ChunkSizes : n <= READ_SIZE}

\* "data = sp.read(64)" and "if data:"
SerialRead(n) ==
    /\ prog = "daemon" /\ tpc = "reading"
    /\ chunk' = Chunk(n)
    /\ pos' = pos + n
    /\ tpc' = IF n > 0 THEN "process" ELSE "check"
    /\ InputIdle /\ ReaderIdle
    /\ UNCHANGED <<sp, stop_event, _data, uncaught, failed, published, ends, obs>>

\* sp.read(64) raises SerialException: the port closes, run() catches it
SerialReadFails ==
    /\ prog = "daemon" /\ tpc = "reading"
    /\ tpc' = "done"
    /\ sp' = "closed"
    /\ failed' = TRUE
    /\ InputIdle /\ ReaderIdle
    /\ UNCHANGED <<pos, stop_event, _data, chunk, uncaught, published, ends, obs>>

\* what "if self._reader.read(data) > 0" leaves of the thread: an exception
\* of read is none that run() catches, so the port closes and the thread ends
AfterReaderRead(r) ==
    /\ tpc' = IF r.exc # "none" THEN "done"
              ELSE IF r.counter > 0 THEN "publish" ELSE "check"
    /\ sp' = IF r.exc # "none" THEN "closed" ELSE sp
    /\ uncaught' = r.exc
    /\ ends' = IF r.exc = "none" /\ r.counter > 0 THEN ends \cup {r.values} ELSE ends

\* _process_data up to its "with"
ProcessData ==
    /\ prog = "daemon" /\ tpc = "process"
    /\ AfterRead(read(buffer, values, chunk))
    /\ AfterReaderRead(read(buffer, values, chunk))
    /\ InputIdle
    /\ UNCHANGED <<pos, stop_event, _data, chunk, failed, published, obs>>

\* the "with self._lock:" of _process_data and the assignment in it
Publish ==
    /\ prog = "daemon" /\ tpc = "publish"
    /\ IF Enter(_lock) = "none"
       THEN /\ _data' = values
            /\ published' = Append(published, values)
            /\ tpc' = "check"
            /\ UNCHANGED <<sp, uncaught>>
       ELSE /\ tpc' = "done"
            /\ sp' = "closed"
            /\ uncaught' = Enter(_lock)
            /\ UNCHANGED <<_data, published>>
    /\ InputIdle /\ ReaderIdle
    /\ UNCHANGED <<pos, stop_event, chunk, failed, ends, obs>>

\* SerialReaderThread.stop, which BatteryMonitorDaemon.stop calls
Stop ==
    /\ prog = "daemon"
    /\ stop_event' = TRUE
    /\ InputIdle /\ ReaderIdle
    /\ UNCHANGED <<pos, tpc, sp, _data, chunk, uncaught, failed, published, ends, obs>>

\* SerialReaderThread.copy_current_data: the copy returned, or the exception
copy_current_data(lock, data) ==
    IF Enter(lock) = "none" THEN [exc |-> "none", val |-> <<data>>]
    ELSE [exc |-> Enter(lock), val |-> <<>>]

\* "if data:" of _get_data_json: a MonitorData has no __bool__ and no __len__
Truthy(data) == TRUE

\* _BmvRequestHandler._get_data_json once copy_current_data has been called
DataJson(c) ==
    IF c.exc # "none" THEN "none"
    ELSE IF Truthy(c.val[1]) THEN "dumps" ELSE "{}"

Called(how, c, json) ==
    [done |-> TRUE, via |-> how, after |-> Len(published), exc |-> c.exc,
     val |-> c.val, json |-> json]

\* a reader calls copy_current_data itself
CopyCurrentData(r) ==
    /\ prog = "daemon" /\ ~obs[r].done
    /\ obs' = [obs EXCEPT ![r] = Called("copy_current_data",
                                        copy_current_data(_lock, _data), "none")]
    /\ InputIdle /\ ReaderIdle
    /\ UNCHANGED <<pos, tpc, sp, stop_event, _data, chunk, uncaught, failed,
                   published, ends>>

\* a request for /bmv600s reaches _get_data_json
GetDataJson(r) ==
    /\ prog = "daemon" /\ ~obs[r].done
    /\ obs' = [obs EXCEPT ![r] = Called("_get_data_json",
                                        copy_current_data(_lock, _data),
                                        DataJson(copy_current_data(_lock, _data)))]
    /\ InputIdle /\ ReaderIdle
    /\ UNCHANGED <<pos, tpc, sp, stop_event, _data, chunk, uncaught, failed,
                   published, ends>>

\* read_serial of src/bmv600s.py as main() calls it: bufsize 64, stopcount 2
\* with --single and 0 without; the StreamParser is new
InitReadSerial ==
    /\ prog = "read_serial"
    /\ \E in \in ThreadInputs :
          /\ made_of = in.made_of
          /\ flipped = in.flipped
          /\ stream = in.stream
    /\ pos = 0
    /\ oversize = FALSE
    /\ buffer = <<>>
    /\ values = MonitorData
    /\ seen = <<>>
    /\ total = 0
    /\ ret = -1
    /\ exc = "none"
    /\ result = <<>>
    /\ stopcount \in {0, SINGLE_STOPCOUNT}
    /\ InitThread

SerialIdle == UNCHANGED <<prog, made_of, flipped, stream, oversize, stopcount,
                          values, seen, exc, stop_event, _data, published, ends, obs>>

\* "with serial.Serial(...) as ser": the port opens, or SerialException
\* leaves read_serial
ReadSerialOpen(ok) ==
    /\ prog = "read_serial" /\ tpc = "new"
    /\ tpc' = IF ok THEN "reading" ELSE "done"
    /\ sp' = IF ok THEN "open" ELSE sp
    /\ failed' = ~ok
    /\ uncaught' = IF ok THEN "none" ELSE "SerialException"
    /\ SerialIdle
    /\ UNCHANGED <<pos, buffer, result, total, ret, chunk>>

\* the counter after "if blocks: counter += len(blocks)"
Counted(r) == total + Len(r.result)

\* "if stopcount > 0: if counter >= stopcount: break"
StopCountReached(r) == stopcount > 0 /\ Counted(r) >= stopcount

\* the "if raw:" branch of read_serial's loop
AfterSerialProcess(r) ==
    /\ buffer' = r.buffer
    /\ result' = result \o r.result
    /\ ret' = Len(r.result)
    /\ total' = IF stopcount > 0 THEN Counted(r) ELSE 0
    /\ tpc' = IF StopCountReached(r) THEN "done" ELSE "reading"
    /\ sp' = IF StopCountReached(r) THEN "closed" ELSE sp

\* one turn of read_serial's loop: "raw = ser.read(bufsize)", then the branch
\* taken; with no bytes the loop is left and the port closes
ReadSerial(n) ==
    /\ prog = "read_serial" /\ tpc = "reading"
    /\ chunk' = Chunk(n)
    /\ pos' = pos + n
    /\ IF n > 0
       THEN AfterSerialProcess(process(buffer, Chunk(n)))
       ELSE /\ tpc' = "done"
            /\ sp' = "closed"
            /\ UNCHANGED <<buffer, result, ret, total>>
    /\ SerialIdle
    /\ UNCHANGED <<uncaught, failed>>

\* ser.read raises SerialException, which leaves read_serial
ReadSerialFails ==
    /\ prog = "read_serial" /\ tpc = "reading"
    /\ tpc' = "done"
    /\ sp' = "closed"
    /\ failed' = TRUE
    /\ uncaught' = "SerialException"
    /\ SerialIdle
    /\ UNCHANGED <<pos, buffer, result, total, ret, chunk>>

\* what the caller of start() can get at afterwards: start() returns None
\* at once, run() lets no SerialException out, so there is only the thread
\* object: is_alive(), stop_event and _data
StarterView ==
    [is_alive |-> tpc \notin {"new", "done"}, stop_event |-> stop_event, _data |-> _data]

NextThread ==
    \/ Start
    \/ Open
    \/ OpenFails
    \/ CheckStop
    \/ \E n \in SerialSizes : SerialRead(n)
    \/ SerialReadFails
    \/ ProcessData
    \/ Publish
    \/ Stop
    \/ \E r \in Readers : CopyCurrentData(r)
    \/ \E r \in Readers : GetDataJson(r)
    \/ \E ok \in BOOLEAN : ReadSerialOpen(ok)
    \/ \E n \in SerialSizes : ReadSerial(n)
    \/ ReadSerialFails

SpecThread == (InitDaemon \/ InitReadSerial) /\ [][NextThread]_vars

\* the steps the acquisition thread takes by itself once started, apart from
\* _process_data's call of read; sp.read returns within its timeout of 5
\* seconds (open_serial_port), with bytes, with none, or by raising
ThreadStep ==
    \/ Open
    \/ OpenFails
    \/ CheckStop
    \/ \E n \in SerialSizes : SerialRead(n)
    \/ SerialReadFails
    \/ Publish

\* the interpreter keeps scheduling a thread that can run. ProcessData is
\* enabled exactly when tpc = "process" and always leaves it, so weak
\* fairness of ProcessData is that the thread is not at "process" for ever.
SpecThreadFair ==
    /\ SpecThread
    /\ WF_vars(ThreadStep)
    /\ []<>(tpc # "process")

(***************************************************************************)
(* Properties                                                              *)
(***************************************************************************)

\* a block the device frames: the label comes first at 10 bytes from the
\* end, and the bytes of the block add up to 0 mod 256
RECURSIVE ByteSum(_)
ByteSum(b) == IF b = <<>> THEN 0 ELSE (Head(b) + ByteSum(Tail(b))) % 256

IsDeviceBlock(b) ==
    /\ find(b, CHECKSUM_LABEL) + Len(CHECKSUM_LABEL) + 2 = Len(b)
    /\ sum(b) % 256 = 0

\* the input is made only of valid blocks, none longer than limit
ValidStream(limit) ==
    /\ made_of # <<>>
    /\ flipped = 0
    /\ \A i \in 1..Len(made_of) :
          IsDeviceBlock(made_of[i]) /\ Len(made_of[i]) <= limit

\* the driver has delivered everything, or read raised
Done == pos = Len(stream) \/ exc # "none"

\* the whole input given to a new reader in one call
OneCall == read(<<>>, MonitorData, stream)

SameAsOneCall(r) ==
    /\ seen = r.seen
    /\ exc = r.exc
    /\ exc = "none" => total = r.counter

\* C1 as stated: for any input made only of valid blocks, however it is cut
\* into chunks, the blocks extracted and the snapshots after each of them are
\* those of one call on the whole input.
C1_AnyBlocks ==
    (prog = "BlockReader" /\ Done /\ ValidStream(Len(stream))) => SameAsOneCall(OneCall)

\* C1, amended: for any input made only of valid blocks of at most maxsize
\* (1024) bytes each, however it is cut into chunks, the blocks extracted and
\* the snapshots after each of them are those of one call on the whole input
\* (a block whose decoding raises ValueError ends both at that block).
C1_ChunkingInvariance ==
    (prog = "BlockReader" /\ Done /\ ValidStream(maxsize)) => SameAsOneCall(OneCall)

\* two blocks extracted by two different calls, the second one long
C1_Witness ==
    /\ prog = "BlockReader" /\ Done /\ ValidStream(maxsize)
    /\ Len(made_of) = 2 /\ Len(stream) > maxsize
    /\ total = 2 /\ ret = 1 /\ Len(seen) = 2

\* the input holds no occurrence of the label
NoLabel == find(stream, CHECKSUM_LABEL) = -1

\* C2 as stated: whatever the chunk sizes, after every read call on input with
\* no label in it the buffer holds at most maxsize bytes.
C2_AnyChunks ==
    (prog = "BlockReader" /\ NoLabel) => Len(buffer) <= maxsize

\* C2, amended: when no chunk is longer than maxsize (1024) bytes, after every
\* read call on input with no label in it the buffer holds at most maxsize bytes.
C2_BoundedBuffer ==
    (prog = "BlockReader" /\ ~oversize /\ NoLabel) => Len(buffer) <= maxsize

\* the discard has fired twice on chunks of at most maxsize bytes
C2_Witness ==
    /\ prog = "BlockReader" /\ ~oversize /\ NoLabel
    /\ pos - Len(buffer) = 2 * maxsize

\* one block, valid as the device frames it, delivered in full
SingleValid ==
    /\ Len(made_of) = 1 /\ flipped = 0
    /\ pos = Len(stream)
    /\ IsDeviceBlock(stream)

\* one block with one byte changed, delivered in full
SingleFlipped == Len(made_of) = 1 /\ flipped # 0 /\ pos = Len(stream)

\* C3 as stated: read extracts a block whose bytes add up to 0 mod 256, and
\* extracts nothing from that block with any one byte changed.
C3_ChecksumDecides ==
    prog = "BlockReader" =>
        /\ SingleValid => (exc = "none" /\ total = 1)
        /\ SingleFlipped => (exc = "none" /\ total = 0)

\* the input is one candidate block: the first label is 10 bytes from its end
SingleCandidate ==
    /\ prog = "BlockReader"
    /\ Len(made_of) = 1
    /\ pos = Len(stream)
    /\ find(stream, CHECKSUM_LABEL) + Len(CHECKSUM_LABEL) + 2 = Len(stream)

\* the candidate passed the checksum test: it was counted, or its decoding raised
Accepted == seen # <<>> \/ exc # "none"

\* C4 as stated: a candidate block is accepted iff its content bytes, a CR and
\* a LF for each of its line ends whatever bytes are there, and its checksum
\* byte add up to 0 mod 256.
C4_VirtualRule ==
    SingleCandidate => (Accepted <=> VirtualSum(stream) % 256 = 0)

\* C4, amended: a candidate block is accepted iff the bytes actually in it,
\* line ends as they are, add up to 0 mod 256.
C4_ActualBytes ==
    SingleCandidate => (Accepted <=> ByteSum(stream) = 0)

\* a block with LF-only or CR-only lines accepted on the sum of its own bytes
C4_Witness ==
    /\ SingleCandidate /\ Accepted
    /\ ByteSum(stream) = 0
    /\ VirtualSum(stream) % 256 # 0

\* the lines of a block that _extract_block decodes, as bytes
BlockLines(b) == splitlines(SubSeq(b, 1, find(b, CHECKSUM_LABEL)))

\* those of them that are a code, a tab and a value
PartsOfLines(lines) == [i \in 1..Len(lines) |-> split(lines[i])]
Pairs(b) == SelectSeq(PartsOfLines(BlockLines(b)), LAMBDA p : Len(p) = 2)
KeysIn(b) == {Pairs(b)[i][1] : i \in 1..Len(Pairs(b))}

\* the snapshot as it stood before the block numbered k
Before(k) == IF k = 1 THEN MonitorData ELSE seen[k - 1]

\* C5 as stated: after any history of blocks, a field whose code is not in a
\* valid block reads as its type's default in the snapshot of that block.
C5_DefaultOnAbsence ==
    (prog = "BlockReader" /\ ValidStream(maxsize)) =>
        \A k \in 1..Len(seen), f \in 1..Len(FIELDS) :
            FIELDS[f].key \notin KeysIn(made_of[k])
                => seen[k][FIELDS[f].field] = MonitorData[FIELDS[f].field]

\* C5, amended: a field whose code is not in a valid block reads in the
\* snapshot of that block as it read before the block; it reads as its type's
\* default only while no block since the reader was made has carried its code.
C5_KeptOnAbsence ==
    (prog = "BlockReader" /\ ValidStream(maxsize)) =>
        \A k \in 1..Len(seen), f \in 1..Len(FIELDS) :
            FIELDS[f].key \notin KeysIn(made_of[k])
                => seen[k][FIELDS[f].field] = Before(k)[FIELDS[f].field]

\* a second block without V, after a first one that set the voltage
C5_Witness ==
    /\ prog = "BlockReader" /\ ValidStream(maxsize)
    /\ Len(seen) = 2
    /\ <<86>> \notin KeysIn(made_of[2])
    /\ seen[2].voltage # MonitorData.voltage

\* the code/value lines of a block whose code set_value does not know
Unregistered(b) == SelectSeq(Pairs(b), LAMBDA p : FieldOf(decode(p[1])) = 0)

\* the lines of a block without those
IsUnregistered(line) == Len(split(line)) = 2 /\ FieldOf(decode(split(line)[1])) = 0
KnownLines(b) == SelectSeq(BlockLines(b), LAMBDA l : ~IsUnregistered(l))

\* the text fields of a snapshot
TextFields == {FIELDS[f].field : f \in {i \in 1..Len(FIELDS) : FIELDS[i].kind = "str"}}

\* C6 as stated: the record produced for a valid block holds every unknown
\* code of the block with its raw value, unmodified.
C6_Passthrough ==
    SingleValid =>
        \A i \in 1..Len(Unregistered(stream)) :
            /\ prog = "StreamParser" =>
                  /\ result # <<>>
                  /\ Unregistered(stream)[i][1] \in DOMAIN result[1]
                  /\ result[1][Unregistered(stream)[i][1]] = Unregistered(stream)[i][2]
            /\ prog = "BlockReader" =>
                  /\ exc # "KeyError"
                  /\ exc = "none" =>
                        \E f \in TextFields : seen[1][f] = Unregistered(stream)[i][2]

\* the last value a block gives for a code
LastValue(pairs, key) ==
    pairs[CHOOSE i \in 1..Len(pairs) :
              /\ pairs[i][1] = key
              /\ \A j \in (i + 1)..Len(pairs) : pairs[j][1] # key][2]

\* C6, amended: for a valid block, StreamParser.process returns a dict that
\* holds every code of the block, known or not, with its value decoded as
\* ASCII text (a byte above 127 becomes U+FFFD), and returns nothing when the
\* block has no code/value line; BlockReader.read counts the block and leaves
\* monitor_data as the block's other lines alone would, keeping nothing of an
\* unknown code.
C6_UnknownCodes ==
    SingleValid =>
        /\ prog = "StreamParser" =>
              /\ Pairs(stream) = <<>> => result = <<>>
              /\ Pairs(stream) # <<>> =>
                    /\ Len(result) = 1
                    /\ DOMAIN result[1] = {decode(k) : k \in KeysIn(stream)}
                    /\ \A k \in KeysIn(stream) :
                          result[1][decode(k)] = decode(LastValue(Pairs(stream), k))
        /\ prog = "BlockReader" =>
              /\ exc # "KeyError"
              /\ exc = "none" =>
                    /\ total = 1
                    /\ seen = <<ParseLines(MonitorData, KnownLines(stream)).values>>

\* a block with an unknown code counted by read, its known code decoded
C6_Witness ==
    /\ SingleValid /\ prog = "BlockReader"
    /\ Unregistered(stream) # <<>>
    /\ total = 1
    /\ seen[1].model_name # <<>>

\* the snapshot a reader finds when k publishes have completed
LatestAt(k) == IF k = 0 THEN MonitorData ELSE published[k]

\* C7 as stated: before the first publish, a reader's copy_current_data does
\* not fail and gives an explicit unset value, never a snapshot with every
\* field at its default.
C7_ExplicitUnset ==
    \A r \in Readers :
        (obs[r].done /\ obs[r].after = 0) =>
            /\ obs[r].exc = "none"
            /\ obs[r].val # <<MonitorData>>

\* C8 as stated: a copy_current_data call that starts when k publishes have
\* completed returns the snapshot of publish k or of a later one.
C8_MonotonicReads ==
    \A r \in Readers :
        obs[r].done =>
            /\ obs[r].exc = "none"
            /\ \E k \in obs[r].after..Len(published) : obs[r].val = <<LatestAt(k)>>

\* C9 as stated: what copy_current_data returns is the parser's snapshot as it
\* stood at the end of some read call that returned > 0, or the initial value,
\* and so is every snapshot published.
C9_NoTornSnapshot ==
    /\ \A r \in Readers :
          obs[r].done =>
              /\ obs[r].exc = "none"
              /\ \E s \in ends \cup {MonitorData} : obs[r].val = <<s>>
    /\ \A i \in 1..Len(published) : published[i] \in ends

\* C10 as stated: whatever bytes the serial reads return, no exception leaves
\* run, and the loop ends only after stop() or a SerialException.
C10_LoopSurvives ==
    /\ uncaught = "none"
    /\ tpc = "done" => (stop_event \/ failed)

\* the loop of run is executing: the port is open and run has not ended
Running == tpc \in {"check", "reading", "process", "publish"}

\* run has ended by the break at the flag test, the only way out of the loop
\* that is no exception
ExitedByFlag == tpc = "done" /\ sp = "closed" /\ uncaught = "none" /\ ~failed

\* C11 as stated: once stop() has been called on a running loop whose serial
\* reads all return, the loop eventually sees the flag at an iteration
\* boundary and exits with the port closed.
C11_StopObserved ==
    (stop_event /\ Running) ~> (ExitedByFlag \/ failed)

\* what does hold of stop(): the loop eventually ends and the port is closed,
\* by the break or by an exception that leaves run
StopTerminates ==
    (stop_event /\ Running) ~> (tpc = "done" /\ sp = "closed")

\* serial.Serial(...) raised before the loop began
OpenFailed == tpc = "done" /\ sp = "none" /\ failed

\* what the starter finds after a run that opened the port, got no block and
\* ended by stop()
CleanStopView == [is_alive |-> FALSE, stop_event |-> TRUE, _data |-> MonitorData]

\* C12 as stated: when opening the serial port fails, the starter of the
\* thread is told: what it can see differs from what it sees after a run that
\* opened the port and was stopped.
C12_OpenFailureSurfaced == OpenFailed => StarterView # CleanStopView

\* a step in which a serial read returned no bytes: the loop leaves its read
\* with nothing delivered and no SerialException raised
EmptyRead ==
    /\ tpc = "reading" /\ tpc' # "reading"
    /\ pos' = pos
    /\ failed' = failed

\* the step leaves the loop running, and the buffer and the published
\* snapshot as they were
LoopGoesOn ==
    /\ tpc' # "done" /\ sp' = "open"
    /\ buffer' = buffer
    /\ _data' = _data /\ published' = published

\* C13 as stated: whenever a serial read returns zero bytes and stop has not
\* been requested, the read loop does not end and leaves buffer and snapshot
\* unchanged - in SerialReaderThread.run and in read_serial alike.
C13_TimeoutIsNoError ==
    [][(EmptyRead /\ ~stop_event) => LoopGoesOn]_vars

\* C13, amended: in SerialReaderThread.run a serial read that returns zero
\* bytes leaves buffer, reader and published snapshot unchanged and takes the
\* loop back to its flag test, from where, stop not requested, the next step
\* is another read. (read_serial of src/bmv600s.py leaves its loop on the
\* first read that returns zero bytes.)
C13_TimeoutInRun ==
    [][prog = "daemon" =>
          /\ EmptyRead => (LoopGoesOn /\ tpc' = "check" /\ values' = values)
          /\ (tpc = "check" /\ ~stop_event /\ tpc' # tpc) => tpc' = "reading"]_vars

\* a read has timed out with bytes pending in the buffer, and the loop has
\* come round to its next read
C13_Witness ==
    /\ prog = "daemon" /\ tpc = "reading" /\ ~stop_event
    /\ chunk = <<>> /\ pos > 0
    /\ buffer # <<>>

\* the names at bits 1, 2 and 4 that are set in v, in ascending bit order,
\* joined with "|"; none when no such bit is set
BitNames(names, v) ==
    LET idx == SelectSeq(<<1, 2, 3>>, LAMBDA i : (v \div (2 ^ (i - 1))) % 2 = 1)
    IN  [k \in 1..Len(idx) |-> names[idx[k]]]

RECURSIVE Joined(_)
Joined(seq) ==
    IF Len(seq) = 1 THEN seq[1] ELSE seq[1] \o "|" \o Joined(Tail(seq))

Label(names, none, v) ==
    IF BitNames(names, v) = <<>> THEN none ELSE Joined(BitNames(names, v))

\* one valid block delivered in full to BlockReader and decoded
SingleDecoded == prog = "BlockReader" /\ SingleValid /\ exc = "none"

HasAR(b) == <<65, 82>> \in KeysIn(b)

\* C14 as stated: alarm_reason is the "|"-joined names low_voltage,
\* high_voltage, low_state_of_charge of the set bits in ascending order, and
\* the none label when the value is zero or the field is absent.
C14_SpecLabels ==
    SingleDecoded =>
        /\ \A v \in 0..MaxAR :
              stream = ARBlock(Str(v)) =>
                  seen[1].alarm_reason
                      = Label(<<"low_voltage", "high_voltage", "low_state_of_charge">>,
                              "none", v)
        /\ ~HasAR(stream) => seen[1].alarm_reason = "none"

\* C14, amended: alarm_reason is the "|"-joined member names LOW_VOLTAGE,
\* HIGH_VOLTAGE, LOW_STATE_OF_CHARGE of the bits 1, 2, 4 set in the AR value,
\* in ascending bit order, and "NONE" when none of them is set (value zero,
\* only other bits, or empty text); when no block has carried AR it is the
\* empty string.
C14_CodeLabels ==
    SingleDecoded =>
        /\ \A v \in 0..MaxAR :
              stream = ARBlock(Str(v)) =>
                  seen[1].alarm_reason
                      = Label(<<"LOW_VOLTAGE", "HIGH_VOLTAGE", "LOW_STATE_OF_CHARGE">>,
                              "NONE", v)
        /\ stream = ARBlock(<<>>) => seen[1].alarm_reason = "NONE"
        /\ ~HasAR(stream) => seen[1].alarm_reason = ""

\* AR = 7 decoded: all three names
C14_Witness ==
    /\ SingleDecoded
    /\ stream = ARBlock(Str(7))
    /\ seen[1].alarm_reason = "LOW_VOLTAGE|HIGH_VOLTAGE|LOW_STATE_OF_CHARGE"

\* b begins with a complete candidate block: a label, a tab and a byte after it
CompleteCandidate(b) ==
    /\ find(b, CHECKSUM_LABEL) # -1
    /\ Len(b) >= find(b, CHECKSUM_LABEL) + Len(CHECKSUM_LABEL) + 2

\* ... and the bytes of that candidate add up to 0 mod 256
ValidCandidate(b) ==
    /\ CompleteCandidate(b)
    /\ ByteSum(SubSeq(b, 1, find(b, CHECKSUM_LABEL) + Len(CHECKSUM_LABEL) + 2)) = 0

\* C15 as stated: a candidate that fails the checksum is dropped and the loop
\* goes on, so when read (or process) returns, no complete valid block is
\* left in the buffer: all of them were extracted and counted in that call.
C15_ResyncInOneCall ==
    (prog \in {"BlockReader", "StreamParser"} /\ ret >= 0) => ~ValidCandidate(buffer)

\* the label is in b but the candidate block it ends is not complete yet
PendingFrame(b) == find(b, CHECKSUM_LABEL) # -1 /\ ~CompleteCandidate(b)

\* the bytes delivered by the step
Delivered == SubSeq(stream, pos + 1, pos')

\* C16 as stated: when a read pass stops because the label was found but the
\* candidate block is not complete, no byte is removed from the buffer,
\* whatever its length.
C16_NoDiscardWhilePending ==
    [][(prog = "BlockReader" /\ pos' > pos /\ PendingFrame(buffer \o Delivered))
          => buffer' = buffer \o Delivered]_vars

ReadFailed == prog = "daemon" /\ tpc = "done" /\ sp = "closed" /\ failed

\* what run does itself when sp.read raises: the loop ends, the port is
\* closed, _data is untouched and no exception leaves run
ReadFailureEndsRun ==
    [][(prog = "daemon" /\ tpc = "reading" /\ failed' /\ ~failed) =>
          /\ tpc' = "done" /\ sp' = "closed"
          /\ uncaught' = "none"
          /\ _data' = _data /\ published' = published]_vars

\* C18 as stated: when a serial read raises a connection error, the loop
\* ends, the port is closed, no exception leaves the thread, and the last
\* published snapshot stays unchanged and readable: a reader that asks after
\* the failure gets it.
C18_ReadFailureIsClean ==
    [][/\ (prog = "daemon" /\ tpc = "reading" /\ failed' /\ ~failed) =>
             /\ tpc' = "done" /\ sp' = "closed"
             /\ uncaught' = "none"
             /\ _data' = _data
       /\ ReadFailed =>
             \A r \in Readers :
                 obs'[r] # obs[r] => (obs'[r].exc = "none" /\ obs'[r].val = <<_data>>)]_vars

\* the buffer as the call sees it once the data has been appended
Full == buffer \o Delivered

\* the length of the first candidate block of b
FirstLen(b) == find(b, CHECKSUM_LABEL) + Len(CHECKSUM_LABEL) + 2

\* s is what is left of b when bytes are taken from its front
IsSuffix(s, b) == Len(s) <= Len(b) /\ s = SubSeq(b, Len(b) - Len(s) + 1, Len(b))

\* C19: whenever a call finds a complete candidate block, that block leaves
\* the front of the buffer whether its checksum is valid or not, and what is
\* left is a suffix of what was there; a candidate that fails the checksum
\* takes exactly offset-of-label + 8 + 2 bytes with it (short of the bounded
\* discard) and is not tried again; the call counts at most len(buffer)/10
\* blocks.
C19_ExtractionProgress ==
    [][(prog \in {"BlockReader", "StreamParser"} /\ pos' > pos /\ CompleteCandidate(Full)) =>
          /\ Len(buffer') <= Len(Full) - FirstLen(Full)
          /\ IsSuffix(buffer', Full)
          /\ (~ValidCandidate(Full) /\ Len(Full) - FirstLen(Full) < maxsize)
                => buffer' = SubSeq(Full, FirstLen(Full) + 1, Len(Full))
          /\ ret' <= Len(Full) \div (Len(CHECKSUM_LABEL) + 2)]_vars

\* a candidate that failed the checksum has been taken off the buffer and
\* nothing was counted
C19_Witness ==
    /\ prog = "BlockReader" /\ flipped # 0
    /\ pos = Len(stream)
    /\ CompleteCandidate(stream) /\ ~ValidCandidate(stream)
    /\ buffer = <<>> /\ total = 0 /\ ret = 0

\* C20 as stated: the lock is held only around the copy of the shared
\* snapshot, never across I/O or parsing, so a reader's copy_current_data is
\* never held up by them and nothing deadlocks: whatever the acquisition
\* thread is doing, the call enters the lock and returns the snapshot.
C20_LockScope ==
    [][prog = "daemon" =>
          \A r \in Readers :
              obs'[r] # obs[r] =>
                  /\ Enter(_lock) = "none"
                  /\ obs'[r].val = <<_data>>]_vars

\* stop() has been called on the daemon's thread
Stopped == prog = "daemon" /\ stop_event

\* the order of one iteration of run: the flag is tested once, before
\* sp.read; one sp.read is made per test and only when the flag was found
\* unset; _process_data follows that read, a store follows _process_data
IterationShape ==
    /\ (tpc' = "reading" /\ tpc # "reading") => (tpc = "check" /\ ~stop_event)
    /\ (tpc = "check" /\ stop_event /\ tpc' # "check") => (tpc' = "done" /\ sp' = "closed")
    /\ (tpc = "reading" /\ tpc' = "reading") => (pos' = pos /\ chunk' = chunk)
    /\ pos' # pos => (tpc = "reading" /\ tpc' # "reading")
    /\ (tpc' = "process" /\ tpc # "process") => tpc = "reading"
    /\ (tpc' = "publish" /\ tpc # "publish") => tpc = "process"
    /\ (published' # published \/ _data' # _data) => (tpc = "publish" /\ tpc' # "publish")

\* C21: the flag is tested once per iteration, before the read; so after
\* stop() the loop makes at most one further serial read (the one already
\* past the flag test) and at most one further store before it exits, a
\* stop() before the first iteration means no read at all, and a second
\* stop() changes nothing.
C21_BoundedAfterStop ==
    /\ [][prog = "daemon" => IterationShape]_vars
    /\ [][(Stop /\ stop_event) => UNCHANGED vars]_vars
    /\ [][stop_event => stop_event']_vars
    /\ []((Stopped /\ tpc \in {"new", "opening"}) =>
             [](tpc \notin {"reading", "process", "publish"} /\ pos = 0 /\ published = <<>>))
    /\ []((Stopped /\ tpc = "check") => [](tpc \in {"check", "done"}))
    /\ []((Stopped /\ tpc \in {"process", "publish"}) => [](tpc # "reading"))
    /\ []((Stopped /\ tpc = "reading") => [](tpc # "reading" => [](tpc # "reading")))
    /\ []((Stopped /\ tpc \in {"reading", "process", "publish"}) =>
             [](tpc \in {"check", "done"} => [](tpc \in {"check", "done"})))
    /\ \A k \in 0..MaxBlocks :
          []((Stopped /\ Len(published) = k) => [](Len(published) <= k + 1))

\* stop() was called while the loop was running, data had been read, and the
\* loop has left through its flag test
C21_Witness ==
    /\ Stopped /\ tpc = "done" /\ sp = "closed"
    /\ ~failed /\ uncaught = "none"
    /\ pos > 0 /\ buffer # <<>>

=============================================================================
